---- MODULE Spec2Model ----
(***************************************************************************)
(* A model of dask_scipy.integrate._quadrature: the composite Simpson      *)
(* integrator (simpson, _basic_simpson) and the Newton-Cotes weight        *)
(* generator (newton_cotes).                                               *)
(*                                                                         *)
(* Numbers.  The code computes in float64; the model computes the same     *)
(* expressions in exact rational arithmetic.  A rational is a pair         *)
(* <<n, d>> with d > 0 and gcd(n, d) = 1.                                  *)
(*                                                                         *)
(* Arrays.  simpson reduces along one axis, lane by lane; the model keeps  *)
(* the full shape tuples of y and x (they decide the validation) and one   *)
(* lane of y and of x along the axis (they decide the value).  A lane is   *)
(* a sequence; Python's index i is the sequence's index i + 1.             *)
(***************************************************************************)
EXTENDS Integers, Sequences, FiniteSets, TLC

VARIABLES pc, fn, args, ret

vars == <<pc, fn, args, ret>>

(***************************************************************************)
(* Bounds of the model.                                                    *)
(***************************************************************************)
\* largest sample count along the axis drawn for simpson
MaxN == 4
\* the polynomial inputs of simpson have 1, 3, .., 2 * MaxPolyPairs + 1 samples
MaxPolyPairs == 2
\* largest position drawn for the strictly increasing x of simpson
MaxX == 5
\* largest rank drawn for the shapes of y and x
MaxRank == 2
\* largest order drawn for the table-driven calls of newton_cotes
MaxOrder == 9
\* largest order drawn for explicitly positioned calls of newton_cotes
MaxIrrOrder == 3

(***************************************************************************)
(* Exact rational arithmetic (the float64 arithmetic of the code).         *)
(***************************************************************************)
\* e, once the value v is computed: Python computes the operands of an
\* operation, and the statements of a function, in order
After(v, e) == IF v = v THEN e ELSE e

Abs(n) == IF n < 0 THEN -n ELSE n

RECURSIVE Gcd(_, _)
Gcd(a, b) == IF b = 0 THEN a ELSE Gcd(b, a % b)

\* the rational n/d in lowest terms, d # 0
Rat(n, d) ==
    LET g == Gcd(Abs(n), Abs(d))
        s == IF d < 0 THEN -1 ELSE 1
    IN  <<(s * n) \div g, (s * d) \div g>>

R(n) == <<n, 1>>
RZero == <<0, 1>>
RAdd(a, b) ==
    LET g == Gcd(a[2], b[2])
    IN  After(a, After(b,
        Rat(a[1] * (b[2] \div g) + b[1] * (a[2] \div g), (a[2] \div g) * b[2])))
RNeg(a) == <<-a[1], a[2]>>
RSub(a, b) == RAdd(a, RNeg(b))
RMul(a, b) ==
    LET g1 == Gcd(Abs(a[1]), b[2])
        g2 == Gcd(Abs(b[1]), a[2])
    IN  After(a, After(b,
        Rat((a[1] \div g1) * (b[1] \div g2), (a[2] \div g2) * (b[2] \div g1))))
\* a / b, b # 0
RDiv(a, b) == After(b, RMul(a, Rat(b[2], b[1])))

\* SafeDiv falling back to 1 instead of 0
SafeDiv_fallbackOne(a, b) == IF b # RZero THEN RDiv(a, b) ELSE R(1)

\* numpy.true_divide(a, b, out=zeros, where=(b != 0)): 0 where b = 0
SafeDiv(a, b) == IF b # RZero THEN RDiv(a, b) ELSE RZero

\* the array s materialised: every element computed once
Strict(s) == SubSeq(s, 1, Len(s))

RECURSIVE RSum(_)
RSum(s) ==
    IF s = <<>> THEN RZero
    ELSE LET r == RSum(Tail(s)) IN After(r, RAdd(Head(s), r))

\* asarray of a lane of integers
ToRat(s) == Strict([i \in 1..Len(s) |-> R(s[i])])

\* asarray of a lane of floats, given as the integers s over the denominator d
ToRatOver(s, d) == Strict([i \in 1..Len(s) |-> Rat(s[i], d)])

(***************************************************************************)
(* Python indexing and slicing of a lane.                                  *)
(***************************************************************************)
\* t[i] for a Python index i, negative counted from the end
PyIndex(t, i) == IF i >= 0 THEN t[i + 1] ELSE t[Len(t) + i + 1]

\* a slice bound clipped to 0..n as slice.indices does for a positive step
PyClip(b, n) ==
    LET c == IF b < 0 THEN b + n ELSE b
    IN  IF c < 0 THEN 0 ELSE IF c > n THEN n ELSE c

\* s[start:stop:step], step > 0
PySlice(s, start, stop, step) ==
    LET lo == PyClip(start, Len(s))
        hi == PyClip(stop, Len(s))
        cnt == IF hi > lo THEN (hi - lo + step - 1) \div step ELSE 0
    IN  Strict([k \in 1..cnt |-> s[lo + (k - 1) * step + 1]])

\* Diff taking s[i] - s[i + 1]
Diff_backward(s) ==
    Strict([i \in 1..(IF Len(s) > 0 THEN Len(s) - 1 ELSE 0) |-> RSub(s[i], s[i + 1])])

\* numpy.diff along the axis
Diff(s) ==
    Strict([i \in 1..(IF Len(s) > 0 THEN Len(s) - 1 ELSE 0) |-> RSub(s[i + 1], s[i])])

\* the common length the lanes of lengths ls broadcast to, -1 when they do not
BroadcastLen(ls) ==
    LET big == {ls[i] : i \in 1..Len(ls)} \ {1}
    IN  IF big = {} THEN 1
        ELSE IF Cardinality(big) = 1 THEN CHOOSE k \in big : TRUE
        ELSE -1

\* element i of a lane broadcast to a longer one
At(a, i) == IF Len(a) = 1 THEN a[1] ELSE a[i]

(***************************************************************************)
(* _basic_simpson: the composite rule on the index triples                 *)
(* (start, start+1, start+2), (start+2, ...), ... of one lane.  The result *)
(* is [err, val]: err is "" and val the sum, or err names the exception.   *)
(***************************************************************************)
\* RegularTerm with the middle sample weighted 2, as the trapezoidal rule does
RegularTerm_weight2(y0, y1, y2) == RAdd(RAdd(y0, RMul(R(2), y1)), y2)

\* the contribution of one index triple under regular spacing
RegularTerm(y0, y1, y2) == RAdd(RAdd(y0, RMul(R(4), y1)), y2)

\* IrregularTerm with h0 and h1 exchanged in the factors of y0 and y2
IrregularTerm_swapped(y0, y1, y2, h0, h1) ==
    LET hsum == RAdd(h0, h1)
        hprod == RMul(h0, h1)
        h0divh1 == SafeDiv(h0, h1)
    IN  RMul(RDiv(hsum, R(6)),
             RAdd(RAdd(RMul(y0, RSub(R(2), h0divh1)),
                       RMul(y1, RMul(hsum, SafeDiv(hsum, hprod)))),
                  RMul(y2, RSub(R(2), SafeDiv(R(1), h0divh1)))))

\* the contribution of one pair of intervals h0, h1 under irregular spacing
IrregularTerm(y0, y1, y2, h0, h1) ==
    LET hsum == RAdd(h0, h1)
        hprod == RMul(h0, h1)
        h0divh1 == SafeDiv(h0, h1)
    IN  RMul(RDiv(hsum, R(6)),
             RAdd(RAdd(RMul(y0, RSub(R(2), SafeDiv(R(1), h0divh1))),
                       RMul(y1, RMul(hsum, SafeDiv(hsum, hprod)))),
                  RMul(y2, RSub(R(2), h0divh1))))

\* _basic_simpson applying the regular rule whether or not x is given
_basic_simpson_ignoresX(y, start, stop, x_given, x, dx) ==
    LET s0 == PySlice(y, start, stop, 2)
        s1 == PySlice(y, start + 1, stop + 1, 2)
        s2 == PySlice(y, start + 2, stop + 2, 2)
        n == BroadcastLen(<<Len(s0), Len(s1), Len(s2)>>)
    IN  IF n = -1 THEN [err |-> "BroadcastError", val |-> <<>>]
        ELSE [err |-> "",
              val |-> RMul(RSum([i \in 1..n |->
                              RegularTerm(At(s0, i), At(s1, i), At(s2, i))]),
                           RDiv(dx, R(3)))]

_basic_simpson(y, start, stop, x_given, x, dx) ==
    LET slice_step == 2
        s0 == PySlice(y, start, stop, slice_step)
        s1 == PySlice(y, start + 1, stop + 1, slice_step)
        s2 == PySlice(y, start + 2, stop + 2, slice_step)
    IN  IF ~x_given
        THEN LET n == BroadcastLen(<<Len(s0), Len(s1), Len(s2)>>)
             IN  IF n = -1 THEN [err |-> "BroadcastError", val |-> <<>>]
                 ELSE [err |-> "",
                       val |-> RMul(RSum([i \in 1..n |->
                                       RegularTerm(At(s0, i), At(s1, i), At(s2, i))]),
                                    RDiv(dx, R(3)))]
        ELSE LET h == Diff(x)
                 h0 == PySlice(h, start, stop, slice_step)
                 h1 == PySlice(h, start + 1, stop + 1, slice_step)
                 n == BroadcastLen(<<Len(s0), Len(s1), Len(s2), Len(h0), Len(h1)>>)
             IN  IF n = -1 THEN [err |-> "BroadcastError", val |-> <<>>]
                 ELSE [err |-> "",
                       val |-> RSum([i \in 1..n |->
                                  IrregularTerm(At(s0, i), At(s1, i), At(s2, i),
                                                At(h0, i), At(h1, i))])]

(***************************************************************************)
(* simpson(y, x, dx, axis, even).  yshape and xshape are the shapes of y   *)
(* and x, y and x their lanes along the axis (x is read only when          *)
(* x_given).  The result is [err, msg, val].                               *)
(***************************************************************************)
ShapeMsg == "If given, shape of x must be 1-D or the same as y."
LengthMsg == "If given, length of x along axis must be the same as y."
EvenMsg == "Parameter 'even' must be 'avg', 'last', or 'first'."

Raise(e, m) == [err |-> e, msg |-> m, val |-> <<>>]
Return(v) == [err |-> "", msg |-> "", val |-> v]

\* XExtent reading x.shape[0] whatever the axis
XExtent_firstDim(xshape, axis) == xshape[1]

\* x.shape[axis] after a 1-D x was reshaped to [1, .., len(x), .., 1]
XExtent(xshape, axis) == IF Len(xshape) = 1 THEN xshape[1] ELSE PyIndex(xshape, axis)

\* whether x and y broadcast in the dimensions other than the axis
OffAxisBroadcast(yshape, xshape, axis) ==
    LET nd == Len(yshape)
        ax == IF axis >= 0 THEN axis + 1 ELSE nd + axis + 1
    IN  Len(xshape) = 1
        \/ \A k \in 1..nd : k = ax \/ yshape[k] = xshape[k]
                                   \/ yshape[k] = 1 \/ xshape[k] = 1

\* 0.5 * step * (ya + yb): the trapezoidal rule on one interval
Trapezoid(step, ya, yb) == RMul(RMul(Rat(1, 2), step), RAdd(ya, yb))

\* SimpsonEven with the 'last' rule started at sample 0 instead of sample 1
SimpsonEven_lastFrom0(y, x_given, x, dx, even, N) ==
    LET useFirst == even \in {"avg", "first"}
        useLast == even \in {"avg", "last"}
        last_dx == IF x_given THEN RSub(PyIndex(x, -1), PyIndex(x, -2)) ELSE dx
        first_dx == IF x_given THEN RSub(PyIndex(x, 1), PyIndex(x, 0)) ELSE dx
        val1 == IF useFirst
                THEN Trapezoid(last_dx, PyIndex(y, -1), PyIndex(y, -2))
                ELSE RZero
        r1 == IF useFirst THEN _basic_simpson(y, 0, N - 3, x_given, x, dx)
              ELSE [err |-> "", val |-> RZero]
        val2 == IF useLast
                THEN RAdd(val1, Trapezoid(first_dx, PyIndex(y, 1), PyIndex(y, 0)))
                ELSE val1
        r2 == IF useLast THEN _basic_simpson(y, 0, N - 2, x_given, x, dx)
              ELSE [err |-> "", val |-> RZero]
    IN  IF r1.err # "" THEN Raise(r1.err, "")
        ELSE IF r2.err # "" THEN Raise(r2.err, "")
        ELSE LET result == RAdd(r1.val, r2.val)
                 val == IF even = "avg" THEN RDiv(val2, R(2)) ELSE val2
                 res == IF even = "avg" THEN RDiv(result, R(2)) ELSE result
             IN  Return(RAdd(res, val))

\* SimpsonEven with 'avg' halving the Simpson sums but not the trapezoid terms
SimpsonEven_avgKeepsVal(y, x_given, x, dx, even, N) ==
    LET useFirst == even \in {"avg", "first"}
        useLast == even \in {"avg", "last"}
        last_dx == IF x_given THEN RSub(PyIndex(x, -1), PyIndex(x, -2)) ELSE dx
        first_dx == IF x_given THEN RSub(PyIndex(x, 1), PyIndex(x, 0)) ELSE dx
        val1 == IF useFirst
                THEN Trapezoid(last_dx, PyIndex(y, -1), PyIndex(y, -2))
                ELSE RZero
        r1 == IF useFirst THEN _basic_simpson(y, 0, N - 3, x_given, x, dx)
              ELSE [err |-> "", val |-> RZero]
        val2 == IF useLast
                THEN RAdd(val1, Trapezoid(first_dx, PyIndex(y, 1), PyIndex(y, 0)))
                ELSE val1
        r2 == IF useLast THEN _basic_simpson(y, 1, N - 2, x_given, x, dx)
              ELSE [err |-> "", val |-> RZero]
    IN  IF r1.err # "" THEN Raise(r1.err, "")
        ELSE IF r2.err # "" THEN Raise(r2.err, "")
        ELSE LET result == RAdd(r1.val, r2.val)
                 res == IF even = "avg" THEN RDiv(result, R(2)) ELSE result
             IN  Return(RAdd(res, val2))

\* the branch of simpson for an even sample count N
SimpsonEven(y, x_given, x, dx, even, N) ==
    LET useFirst == even \in {"avg", "first"}
        useLast == even \in {"avg", "last"}
        last_dx == IF x_given THEN RSub(PyIndex(x, -1), PyIndex(x, -2)) ELSE dx
        first_dx == IF x_given THEN RSub(PyIndex(x, 1), PyIndex(x, 0)) ELSE dx
        val1 == IF useFirst
                THEN Trapezoid(last_dx, PyIndex(y, -1), PyIndex(y, -2))
                ELSE RZero
        r1 == IF useFirst THEN _basic_simpson(y, 0, N - 3, x_given, x, dx)
              ELSE [err |-> "", val |-> RZero]
        val2 == IF useLast
                THEN RAdd(val1, Trapezoid(first_dx, PyIndex(y, 1), PyIndex(y, 0)))
                ELSE val1
        r2 == IF useLast THEN _basic_simpson(y, 1, N - 2, x_given, x, dx)
              ELSE [err |-> "", val |-> RZero]
    IN  IF r1.err # "" THEN Raise(r1.err, "")
        ELSE IF r2.err # "" THEN Raise(r2.err, "")
        ELSE LET result == RAdd(r1.val, r2.val)
                 val == IF even = "avg" THEN RDiv(val2, R(2)) ELSE val2
                 res == IF even = "avg" THEN RDiv(result, R(2)) ELSE result
             IN  Return(RAdd(res, val))

simpson(yshape, y, x_given, xshape, x, dx, axis, even) ==
    LET nd == Len(yshape)
        N == PyIndex(yshape, axis)
    IN  IF x_given /\ Len(xshape) # 1 /\ Len(xshape) # nd
        THEN Raise("ValueError", ShapeMsg)
        ELSE IF x_given /\ XExtent(xshape, axis) # N
        THEN Raise("ValueError", LengthMsg)
        ELSE IF N % 2 = 0
        THEN IF even \notin {"avg", "last", "first"}
             THEN Raise("ValueError", EvenMsg)
             ELSE IF x_given /\ ~OffAxisBroadcast(yshape, xshape, axis)
             THEN Raise("BroadcastError", "")
             ELSE SimpsonEven(y, x_given, x, dx, even, N)
        ELSE IF x_given /\ ~OffAxisBroadcast(yshape, xshape, axis)
             THEN Raise("BroadcastError", "")
             ELSE LET r == _basic_simpson(y, 0, N - 2, x_given, x, dx)
                  IN  IF r.err # "" THEN Raise(r.err, "") ELSE Return(r.val)

(***************************************************************************)
(* newton_cotes(rn, equal).  rn is a bare integer n (sized = FALSE) or a   *)
(* sized sequence of positions rn (sized = TRUE).  The result is           *)
(* [err, msg, val] with val = <<weights, error coefficient>>.              *)
(***************************************************************************)
\* an integer beyond the range of the model checker's numbers, hi * 10^6 + lo
Big(hi, lo) == hi * 1000000 + lo

\* the orders the table of pre-computed coefficients holds
TableOrders == 1..14

\* _builtincoeffs[N] == <<num_a, den_a, int_a, num_B, den_B>>
_builtincoeffs(N) ==
    CASE N = 1 -> <<1, 2,
                 <<1, 1>>,
                 -1, 12>>
      [] N = 2 -> <<1, 3,
                 <<1, 4, 1>>,
                 -1, 90>>
      [] N = 3 -> <<3, 8,
                 <<1, 3, 3, 1>>,
                 -3, 80>>
      [] N = 4 -> <<2, 45,
                 <<7, 32, 12, 32, 7>>,
                 -8, 945>>
      [] N = 5 -> <<5, 288,
                 <<19, 75, 50, 50, 75, 19>>,
                 -275, 12096>>
      [] N = 6 -> <<1, 140,
                 <<41, 216, 27, 272, 27, 216, 41>>,
                 -9, 1400>>
      [] N = 7 -> <<7, 17280,
                 <<751, 3577, 1323, 2989, 2989, 1323, 3577, 751>>,
                 -8183, 518400>>
      [] N = 8 -> <<4, 14175,
                 <<989, 5888, -928, 10496, -4540, 10496, -928, 5888, 989>>,
                 -2368, 467775>>
      [] N = 9 -> <<9, 89600,
                 <<2857, 15741, 1080, 19344, 5778, 5778, 19344, 1080, 15741, 2857>>,
                 -4671, 394240>>
      [] N = 10 -> <<5, 299376,
                 <<16067, 106300, -48525, 272400, -260550, 427368, -260550, 272400, -48525, 106300, 16067>>,
                 -673175, 163459296>>
      [] N = 11 -> <<11, 87091200,
                 <<2171465, 13486539, -3237113, 25226685, -9595542, 15493566, 15493566, -9595542, 25226685, -3237113, 13486539, 2171465>>,
                 -Big(2224, 234463), Big(237758, 976000)>>
      [] N = 12 -> <<1, 5255250,
                 <<1364651, 9903168, -7587864, 35725120, -51491295, 87516288, -87797136, 87516288, -51491295, 35725120, -7587864, 9903168, 1364651>>,
                 -3012, 875875>>
      [] N = 13 -> <<13, Big(402361, 344000),
                 <<Big(8181, 904909), Big(56280, 729661), -Big(31268, 252574), Big(156074, 417954), -Big(151659, 573325), Big(206683, 437987), -Big(43111, 992612), -Big(43111, 992612), Big(206683, 437987), -Big(151659, 573325), Big(156074, 417954), -Big(31268, 252574), Big(56280, 729661), Big(8181, 904909)>>,
                 -Big(2639, 651053), Big(344881, 152000)>>
      [] N = 14 -> <<7, Big(2501, 928000),
                 <<90241897, 710986864, -770720657, Big(3501, 442784), -Big(6625, 93363), Big(12630, 121616), -Big(16802, 270373), Big(19534, 438464), -Big(16802, 270373), Big(12630, 121616), -Big(6625, 93363), Big(3501, 442784), -770720657, 710986864, 90241897>>,
                 -Big(3740, 727473), Big(1275983, 280000)>>

RangeMsg == "The sample positions must start at 0 and end at N"

\* da.arange(n): 0, 1, .., n - 1
Arange(n) == Strict([i \in 1..n |-> R(i - 1)])

RECURSIVE RPow(_, _)
RPow(a, k) == IF k = 0 THEN R(1) ELSE RMul(a, RPow(a, k - 1))

RECURSIVE Factorial(_)
Factorial(k) == IF k = 0 THEN 1 ELSE k * Factorial(k - 1)

\* a.dot(b) of two vectors
Dot(a, b) == RSum([i \in 1..Len(a) |-> RMul(a[i], b[i])])

\* A.dot(B) of two square matrices (sequences of rows)
MatMul(A, B) ==
    Strict([i \in 1..Len(A) |-> Strict([j \in 1..Len(A) |->
        RSum([k \in 1..Len(A) |-> RMul(A[i][k], B[k][j])])])])

\* M without row r and column c
Minor(M, r, c) ==
    Strict([i \in 1..(Len(M) - 1) |-> Strict([j \in 1..(Len(M) - 1) |->
        M[IF i < r THEN i ELSE i + 1][IF j < c THEN j ELSE j + 1]])])

RECURSIVE Det(_)
Det(M) ==
    IF Len(M) = 1 THEN M[1][1]
    ELSE RSum([j \in 1..Len(M) |->
            RMul(IF j % 2 = 1 THEN M[1][j] ELSE RNeg(M[1][j]), Det(Minor(M, 1, j)))])

\* Inv without the transposition of the cofactors
Inv_cofactorsNotTransposed(M) ==
    LET d == Det(M)
    IN  After(d, Strict([i \in 1..Len(M) |-> Strict([j \in 1..Len(M) |->
            IF Len(M) = 1 THEN RDiv(R(1), d)
            ELSE RDiv(IF (i + j) % 2 = 0 THEN Det(Minor(M, i, j))
                      ELSE RNeg(Det(Minor(M, i, j))), d)])]))

\* da.linalg.inv(C) of a non-singular C
Inv(M) ==
    LET d == Det(M)
    IN  After(d, Strict([i \in 1..Len(M) |-> Strict([j \in 1..Len(M) |->
            IF Len(M) = 1 THEN RDiv(R(1), d)
            ELSE RDiv(IF (i + j) % 2 = 0 THEN Det(Minor(M, j, i))
                      ELSE RNeg(Det(Minor(M, j, i))), d)])]))

\* Cinv = 2 * Cinv - Cinv.dot(C).dot(Cinv)
Refine(Cinv, C) ==
    LET P1 == MatMul(Cinv, C)
        P == MatMul(P1, Cinv)
    IN  After(P1, After(P,
            Strict([i \in 1..Len(C) |-> Strict([j \in 1..Len(C) |->
                RSub(RMul(R(2), Cinv[i][j]), P[i][j])])])))

\* TableCoeffs without the factor num_a
TableCoeffs_dropsNum(N) ==
    LET e == _builtincoeffs(N)
    IN  <<Strict([i \in 1..Len(e[3]) |-> RDiv(R(e[3][i]), R(e[2]))]), Rat(e[4], e[5])>>

\* the weights and the error coefficient from the table
TableCoeffs(N) ==
    LET e == _builtincoeffs(N)
        na == e[1]
        daa == e[2]
        vi == e[3]
        nb == e[4]
        db == e[5]
    IN  <<Strict([i \in 1..Len(vi) |-> RDiv(RMul(R(na), R(vi[i])), R(daa))]),
          Rat(nb, db)>>

\* the weights and the error coefficient computed from the positions rn
SolveCoeffs(rn, N, equal) ==
    LET yi == Strict([j \in 1..(N + 1) |-> RDiv(rn[j], R(N))])
        ti == Strict([j \in 1..(N + 1) |-> RSub(RMul(R(2), yi[j]), R(1))])
        C == Strict([i \in 1..(N + 1) |->
                 Strict([j \in 1..(N + 1) |-> RPow(ti[j], i - 1)])])
    IN  After(yi, After(ti, After(C,
        IF Det(C) = RZero THEN Raise("LinAlgError", "Singular matrix")
        ELSE
        LET Cinv0 == Inv(C)
            Cinv1 == Refine(Cinv0, C)
            Cinv == Refine(Cinv1, C)
            nk == N \div 2 + 1
            vec == Strict([k \in 1..nk |-> Rat(2, 2 * (k - 1) + 1)])
            ai == Strict([r \in 1..(N + 1) |->
                     RMul(RSum([k \in 1..nk |-> RMul(Cinv[r][2 * k - 1], vec[k])]),
                          Rat(N, 2))])
            evenEqual == (N % 2 = 0) /\ equal # 0
            power == IF evenEqual THEN N + 2 ELSE N + 1
            BN0 == IF evenEqual THEN Rat(N, N + 3) ELSE Rat(N, N + 2)
            BN == RSub(BN0, Dot([j \in 1..(N + 1) |-> RPow(yi[j], power)], ai))
            fac == RDiv(RPow(R(N), power), R(Factorial(power)))
        IN  After(Cinv0, After(Cinv1, After(Cinv, After(ai,
                Return(<<ai, RMul(BN, fac)>>)))))
        )))

\* BadRange with `and` for `or`
BadRange_and(rn, N) == PyIndex(rn, 0) # RZero /\ PyIndex(rn, -1) # R(N)

\* whether rn[0] != 0 or rn[-1] != N
BadRange(rn, N) == PyIndex(rn, 0) # RZero \/ PyIndex(rn, -1) # R(N)

\* whether da.all(da.diff(rn) == 1)
UnitSpaced(rn) == \A i \in 1..Len(Diff(rn)) : Diff(rn)[i] = R(1)

newton_cotes(sized, n, rn, equal) ==
    LET N == IF sized THEN Len(rn) - 1 ELSE n
        rn1 == IF sized /\ equal = 0 THEN rn ELSE Arange(N + 1)
        equal1 == IF ~sized THEN 1
                  ELSE IF equal # 0 THEN equal
                  ELSE IF UnitSpaced(rn) THEN 1 ELSE 0
    IN  IF equal1 # 0 /\ N \in TableOrders
        THEN Return(TableCoeffs(N))
        ELSE IF BadRange(rn1, N)
        THEN Raise("ValueError", RangeMsg)
        ELSE SolveCoeffs(rn1, N, equal1)

(***************************************************************************)
(* The calls.  Every call is a pure function of its arguments: a state     *)
(* holds one call, its arguments (args) and, once it returned or raised,   *)
(* its outcome (ret).                                                      *)
(***************************************************************************)
NoRet == [err |-> "pending", msg |-> "", val |-> <<>>]

YVals == {-1, 2}
XVals == {0, 1, 3}
DxVals == {Rat(1, 2), R(1), R(2)}
EvenVals == {"avg", "first", "last", "whatever"}

\* coef records the polynomial a drawn y samples, <<>> when y is drawn freely;
\* the positions are x[i] / xden
SimpsonArgs(yshape, y, x_given, xshape, x, dx, axis, even, coef) ==
    [yshape |-> yshape, y |-> y, x_given |-> x_given, xshape |-> xshape, x |-> x,
     xden |-> 1, dx |-> dx, axis |-> axis, even |-> even, coef |-> coef]

\* one-dimensional y of every length, with dx or with arbitrary positions x;
\* and y = arange(4) at x = 2**y
InitSimpson ==
    /\ pc = "call"
    /\ fn = "simpson"
    /\ ret = NoRet
    /\ \/ \E even \in EvenVals :
             args = SimpsonArgs(<<4>>, <<0, 1, 2, 3>>, TRUE, <<4>>, <<1, 2, 4, 8>>,
                                R(1), -1, even, <<>>)
       \/ \E N \in 1..MaxN : \E y \in [1..N -> YVals] : \E even \in EvenVals :
          \/ \E dx \in DxVals :
                args = SimpsonArgs(<<N>>, y, FALSE, <<>>, <<>>, dx, -1, even, <<>>)
          \/ \E x \in [1..N -> XVals] :
                args = SimpsonArgs(<<N>>, y, TRUE, <<N>>, x, R(1), -1, even, <<>>)

\* c[1] + c[2] * t + c[3] * t^2 + ..., an integer polynomial at an integer
RECURSIVE PolyAt(_, _)
PolyAt(c, t) == IF c = <<>> THEN 0 ELSE Head(c) + t * PolyAt(Tail(c), t)

CoefVals == -1..1
PolyN == {2 * h + 1 : h \in 0..MaxPolyPairs}

\* odd-length y sampling a polynomial of degree <= 3 in the index, x = None;
\* and y = arange(17)
InitPoly ==
    /\ pc = "call"
    /\ fn = "simpson"
    /\ ret = NoRet
    /\ \E dx \in DxVals :
          \/ args = SimpsonArgs(<<17>>, [i \in 1..17 |-> i - 1], FALSE, <<>>, <<>>,
                                dx, -1, "avg", <<0, 1, 0, 0>>)
          \/ \E N \in PolyN : \E c \in [1..4 -> CoefVals] :
                args = SimpsonArgs(<<N>>, [i \in 1..N |-> PolyAt(c, i - 1)], FALSE, <<>>,
                                   <<>>, dx, -1, "avg", c)

\* the strictly increasing sequences of length n over lo..hi
RECURSIVE Increasing(_, _, _)
Increasing(n, lo, hi) ==
    IF n = 0 THEN {<<>>}
    ELSE UNION {{<<a>> \o t : t \in Increasing(n - 1, a + 1, hi)} : a \in lo..hi}

\* odd-length y sampling a polynomial of degree <= 2 at strictly increasing x
InitQuad ==
    /\ pc = "call"
    /\ fn = "simpson"
    /\ ret = NoRet
    /\ \E N \in PolyN \ {1} : \E x \in Increasing(N, 0, MaxX) :
       \E c \in [1..3 -> CoefVals] :
          args = SimpsonArgs(<<N>>, [i \in 1..N |-> PolyAt(c, x[i])], TRUE, <<N>>, x,
                             R(1), -1, "avg", c)

DimVals == 1..3

\* the shapes of rank lo..hi
Shapes(lo, hi) == UNION {[1..r -> DimVals] : r \in lo..hi}

\* y and x of every shape, every axis of y; the lanes hold 0, 1, 2, ...
InitShape ==
    /\ pc = "call"
    /\ fn = "simpson"
    /\ ret = NoRet
    /\ \E yshape \in Shapes(1, MaxRank) : \E axis \in (-Len(yshape))..(Len(yshape) - 1) :
       \E even \in EvenVals :
          LET y == [i \in 1..PyIndex(yshape, axis) |-> i - 1]
          IN  \/ args = SimpsonArgs(yshape, y, FALSE, <<>>, <<>>, R(1), axis, even, <<>>)
              \/ \E xshape \in Shapes(0, MaxRank + 1) :
                    LET n == IF Len(xshape) \in {1, Len(yshape)}
                             THEN XExtent(xshape, axis) ELSE 0
                    IN  args = SimpsonArgs(yshape, y, TRUE, xshape,
                                           [i \in 1..n |-> i - 1], R(1), axis, even, <<>>)

SimpsonCall ==
    /\ pc = "call"
    /\ fn = "simpson"
    /\ ret' = simpson(args.yshape, ToRat(args.y), args.x_given, args.xshape,
                      ToRatOver(args.x, args.xden), args.dx, args.axis, args.even)
    /\ pc' = "done"
    /\ UNCHANGED <<fn, args>>

\* the positions x0, x0 + h, x0 + 2h, .. over the denominator d, as integers
UniformX(N, x0, h) == [i \in 1..N |-> x0 + (i - 1) * h]

StepNums == {1, 2, 3}
XDens == {1, 2, 4}

\* one-dimensional y of every length at uniformly spaced positions x of step
\* h = hn / d; dx, which simpson does not read when x is given, holds h; and
\* y = arange(17) at x = linspace(0, 4, 17)
InitUniform ==
    /\ pc = "call"
    /\ fn = "simpson"
    /\ ret = NoRet
    /\ \E even \in EvenVals :
          \/ args = [SimpsonArgs(<<17>>, [i \in 1..17 |-> i - 1], TRUE, <<17>>,
                                 UniformX(17, 0, 1), Rat(1, 4), -1, even, <<>>)
                        EXCEPT !.xden = 4]
          \/ \E N \in 1..MaxN : \E y \in [1..N -> YVals] : \E x0 \in {0, 1} :
             \E hn \in StepNums : \E d \in XDens :
                args = [SimpsonArgs(<<N>>, y, TRUE, <<N>>, UniformX(N, x0, hn),
                                    Rat(hn, d), -1, even, <<>>)
                          EXCEPT !.xden = d]

SpecSimpson == InitSimpson /\ [][SimpsonCall]_vars
SpecUniform == InitUniform /\ [][SimpsonCall]_vars
SpecPoly == InitPoly /\ [][SimpsonCall]_vars
SpecQuad == InitQuad /\ [][SimpsonCall]_vars
SpecShape == InitShape /\ [][SimpsonCall]_vars

NewtonCotesArgs(sized, n, rn, equal) ==
    [sized |-> sized, n |-> n, rn |-> rn, equal |-> equal]

\* the positions start, start + 1, .., start + N
UnitFrom(start, N) == [i \in 1..(N + 1) |-> RAdd(start, R(i - 1))]

\* the multiples of 1/2 in [0, N + 1/2]
HalfVals(N) == {Rat(k, 2) : k \in 0..(2 * N + 1)}

\* a bare order; unit-spaced positions from several origins; arbitrary
\* positions; and the positions [0, 1.4, 2.1, 3.0]
InitNewtonCotes ==
    /\ pc = "call"
    /\ fn = "newton_cotes"
    /\ ret = NoRet
    /\ \E equal \in {0, 1} :
          \/ \E n \in 1..MaxOrder : args = NewtonCotesArgs(FALSE, n, <<>>, equal)
          \/ \E N \in 1..MaxOrder : \E start \in {R(-1), R(0), Rat(1, 2), R(1)} :
                args = NewtonCotesArgs(TRUE, 0, UnitFrom(start, N), equal)
          \/ \E N \in 1..MaxIrrOrder : \E rn \in [1..(N + 1) -> HalfVals(N)] :
                args = NewtonCotesArgs(TRUE, 0, rn, equal)
          \/ args = NewtonCotesArgs(TRUE, 0, <<R(0), Rat(14, 10), Rat(21, 10), R(3)>>,
                                    equal)

NewtonCotesCall ==
    /\ pc = "call"
    /\ fn = "newton_cotes"
    /\ ret' = newton_cotes(args.sized, args.n, args.rn, args.equal)
    /\ pc' = "done"
    /\ UNCHANGED <<fn, args>>

SpecNewtonCotes == InitNewtonCotes /\ [][NewtonCotesCall]_vars

Init == InitShape \/ InitNewtonCotes
Next == SimpsonCall \/ NewtonCotesCall
Spec == Init /\ [][Next]_vars

(***************************************************************************)
(* The claims.                                                             *)
(***************************************************************************)
IsSimpson == fn = "simpson"
Returned == pc = "done"
\* the sample count along the axis of the simpson call
CallN == PyIndex(args.yshape, args.axis)
ValidEven == {"avg", "first", "last"}
\* whether x, if given, passes the shape and the length check
\* the extent of x along the axis: its length when x is 1-D (rank of x valid)
CallXLen ==
    IF Len(args.xshape) = 1 THEN args.xshape[1] ELSE PyIndex(args.xshape, args.axis)
\* whether x, if given, passes the shape and the length check
XChecksPass ==
    ~args.x_given
    \/ (Len(args.xshape) \in {1, Len(args.yshape)} /\ CallXLen = CallN)
\* the simpson call of the state with another `even`
SimpsonWith(even) ==
    simpson(args.yshape, ToRat(args.y), args.x_given, args.xshape,
            ToRatOver(args.x, args.xden), args.dx, args.axis, even)
\* simpson on the samples lo..hi (1-based) of the one-dimensional call of the state
SimpsonOn(lo, hi) ==
    simpson(<<hi - lo + 1>>, ToRat(SubSeq(args.y, lo, hi)), args.x_given,
            IF args.x_given THEN <<hi - lo + 1>> ELSE <<>>,
            IF args.x_given THEN ToRatOver(SubSeq(args.x, lo, hi), args.xden) ELSE <<>>,
            args.dx, -1, "avg")
\* the spacing between the samples i and i + 1 (1-based) of the call of the state
StepAt(i) ==
    IF args.x_given THEN Rat(args.x[i + 1] - args.x[i], args.xden) ELSE args.dx

\* C1: every simpson call whose `even` is not 'avg', 'first' or 'last' (x, if
\* given, passing the shape and length checks) raises the invalid-parameter
\* error and returns nothing, for odd as well as even sample counts.
C1_InvalidEvenAlwaysRaises ==
    (Returned /\ IsSimpson /\ args.even \notin ValidEven /\ XChecksPass)
        => ret = Raise("ValueError", EvenMsg)

\* the integral over [0, b] of the polynomial with the coefficients c
ExactPolyIntegral(c, b) ==
    RSum([k \in 1..Len(c) |-> RMul(R(c[k]), RDiv(RPow(R(b), k), R(k)))])

\* y[2j] + 4 y[2j+1] + y[2j+2] summed over the index triples of an odd-length y
RECURSIVE TripleSum(_)
TripleSum(y) ==
    IF Len(y) < 3 THEN 0
    ELSE y[1] + 4 * y[2] + y[3] + TripleSum(SubSeq(y, 3, Len(y)))

\* C3: for an odd sample count, x = None and y a polynomial of degree <= 3 in
\* the sample index, simpson(y, dx=dx) is dx times the exact integral of the
\* polynomial over [0, N-1], and is dx/3 times the sum of y0 + 4 y1 + y2 over
\* the index triples; 0..16 gives 128 with dx = 1 and 64 with dx = 0.5.
C3_CubicExactOnOddRegular ==
    /\ (Returned /\ IsSimpson /\ ~args.x_given /\ args.coef # <<>> /\ CallN % 2 = 1)
          => /\ ret = Return(RMul(args.dx, ExactPolyIntegral(args.coef, CallN - 1)))
             /\ ret.val = RMul(RDiv(args.dx, R(3)), R(TripleSum(args.y)))
    /\ (Returned /\ IsSimpson /\ ~args.x_given /\ args.y = [i \in 1..17 |-> i - 1])
          => /\ args.dx = R(1) => ret = Return(R(128))
             /\ args.dx = Rat(1, 2) => ret = Return(R(64))

C3_Witness ==
    /\ Returned /\ IsSimpson /\ ~args.x_given
    /\ CallN = 5 /\ args.coef # <<>> /\ args.coef[4] # 0 /\ args.dx = Rat(1, 2)
    /\ ret.err = "" /\ ret.val # RZero

\* C4: for an even sample count N >= 2, even='first' gives the Simpson result
\* on the first N-1 samples plus the trapezoid 0.5*step*(y[N-1] + y[N-2]) on the
\* last interval, and even='last' gives the Simpson result on the last N-1
\* samples plus the trapezoid 0.5*step*(y[1] + y[0]) on the first interval,
\* step being the spacing of x there, or dx when x is None.
C4_FirstLastDecompose ==
    (Returned /\ IsSimpson /\ Len(args.yshape) = 1 /\ CallN % 2 = 0 /\ XChecksPass)
        => /\ args.even = "first" =>
                 /\ SimpsonOn(1, CallN - 1).err = ""
                 /\ ret = Return(RAdd(SimpsonOn(1, CallN - 1).val,
                                      Trapezoid(StepAt(CallN - 1), R(args.y[CallN]),
                                                R(args.y[CallN - 1]))))
           /\ args.even = "last" =>
                 /\ SimpsonOn(2, CallN).err = ""
                 /\ ret = Return(RAdd(SimpsonOn(2, CallN).val,
                                      Trapezoid(StepAt(1), R(args.y[2]), R(args.y[1]))))

C4_Witness ==
    /\ Returned /\ IsSimpson /\ CallN = 4 /\ args.x_given /\ args.even = "last"
    /\ args.x = <<0, 1, 3, 3>> /\ args.y = <<2, -1, -1, 2>>
    /\ ret.err = "" /\ SimpsonOn(2, CallN).val # RZero

\* C5: for an even sample count, even='avg' gives the arithmetic mean of the
\* results of even='first' and even='last'; y = [0,1,2,3] at x = [1,2,4,8]
\* gives 13.75 (first), 14 (last) and 13.875 (avg).
C5_AvgIsMeanOfFirstAndLast ==
    /\ (Returned /\ IsSimpson /\ CallN % 2 = 0 /\ args.even = "avg" /\ XChecksPass)
          => /\ SimpsonWith("first").err = "" /\ SimpsonWith("last").err = ""
             /\ ret = Return(RDiv(RAdd(SimpsonWith("first").val,
                                       SimpsonWith("last").val), R(2)))
    /\ (Returned /\ IsSimpson /\ args.x_given
           /\ args.y = <<0, 1, 2, 3>> /\ args.x = <<1, 2, 4, 8>>)
          => /\ args.even = "first" => ret = Return(Rat(55, 4))
             /\ args.even = "last" => ret = Return(R(14))
             /\ args.even = "avg" => ret = Return(Rat(111, 8))

C5_Witness ==
    /\ Returned /\ IsSimpson /\ CallN = 4 /\ args.even = "avg" /\ args.x_given
    /\ ret.err = ""
    /\ SimpsonWith("first").val # SimpsonWith("last").val

\* hsum/6 * (y0*(2 - h1/h0) + y1*hsum*hsum/(h0*h1) + y2*(2 - h0/h1)), h0, h1 # 0
TextbookTerm(y0, y1, y2, h0, h1) ==
    LET hsum == RAdd(h0, h1)
    IN  RMul(RDiv(hsum, R(6)),
             RAdd(RAdd(RMul(y0, RSub(R(2), RDiv(h1, h0))),
                       RMul(y1, RDiv(RMul(hsum, hsum), RMul(h0, h1)))),
                  RMul(y2, RSub(R(2), RDiv(h0, h1)))))

\* what a pair of intervals with a zero sub-spacing contributes: hsum/3 * (y0 + y2)
DegenerateTerm(y0, y2, h0, h1) == RMul(RDiv(RAdd(h0, h1), R(3)), RAdd(y0, y2))

\* the sum over the pairs of intervals between the samples lo..hi (1-based) of the
\* call of the state; a pair with a zero sub-spacing counts 0 when zeroIsZero
PairSum(lo, hi, zeroIsZero) ==
    RSum([j \in 1..((hi - lo) \div 2) |->
        LET i == lo + 2 * (j - 1)
            h0 == Rat(args.x[i + 1] - args.x[i], args.xden)
            h1 == Rat(args.x[i + 2] - args.x[i + 1], args.xden)
            y0 == R(args.y[i])
            y1 == R(args.y[i + 1])
            y2 == R(args.y[i + 2])
        IN  IF h0 = RZero \/ h1 = RZero
            THEN IF zeroIsZero THEN RZero ELSE DegenerateTerm(y0, y2, h0, h1)
            ELSE TextbookTerm(y0, y1, y2, h0, h1)])

\* the irregular-spacing result of the call of the state, from its pairs of intervals
ResultFromPairs(zeroIsZero) ==
    IF CallN % 2 = 1 THEN PairSum(1, CallN, zeroIsZero)
    ELSE IF args.even = "first"
    THEN RAdd(PairSum(1, CallN - 1, zeroIsZero),
              Trapezoid(StepAt(CallN - 1), R(args.y[CallN]), R(args.y[CallN - 1])))
    ELSE RAdd(PairSum(2, CallN, zeroIsZero),
              Trapezoid(StepAt(1), R(args.y[2]), R(args.y[1])))

\* the calls whose result is a sum over pairs of intervals of given positions x
IrregularCall ==
    /\ Returned /\ IsSimpson /\ args.x_given /\ Len(args.yshape) = 1 /\ XChecksPass
    /\ (CallN % 2 = 1 \/ args.even \in {"first", "last"})

\* C6 as stated: under irregular spacing no error is produced, and every pair of
\* intervals in which h0 or h1 is zero contributes 0 to the summed result.
C6_ZeroSpacingPairContributesZero ==
    IrregularCall => ret = Return(ResultFromPairs(TRUE))

\* C6 as amended: under irregular spacing no error is produced; a pair of
\* intervals in which h0 or h1 is zero contributes hsum/3 * (y0 + y2), which is 0
\* when both are zero and is not 0 in general when exactly one is.
C6_ZeroSpacingPairFallback ==
    IrregularCall => ret = Return(ResultFromPairs(FALSE))

C6_Witness ==
    /\ IrregularCall /\ CallN = 3 /\ args.x = <<1, 1, 3>> /\ args.y = <<2, -1, 2>>
    /\ ret = Return(Rat(8, 3))

\* C7: with x given, simpson raises the invalid-shape error exactly when the rank
\* of x is neither 1 nor the rank of y, and otherwise the length-mismatch error
\* exactly when the extent of x along the axis (its length when 1-D) differs from
\* N; both precede the examination of `even`, the shape error first.
C7_ShapeThenLengthErrors ==
    (Returned /\ IsSimpson)
        => LET badRank == args.x_given /\ Len(args.xshape) \notin {1, Len(args.yshape)}
               badLen == args.x_given /\ ~badRank /\ CallXLen # CallN
           IN  /\ ret = Raise("ValueError", ShapeMsg) <=> badRank
               /\ ret = Raise("ValueError", LengthMsg) <=> badLen

C7_Witness ==
    /\ Returned /\ IsSimpson /\ args.x_given
    /\ args.yshape = <<3, 2>> /\ args.xshape = <<3>> /\ args.axis = -1
    /\ args.even = "whatever"
    /\ ret = Raise("ValueError", LengthMsg)

\* C8: simpson returns 0 and raises nothing whenever there is a single sample
\* along the axis or all positions x are equal, for every y, every sample count
\* and every even policy among 'avg', 'first', 'last'.
C8_DegenerateInputGivesZero ==
    (Returned /\ IsSimpson /\ args.even \in ValidEven /\ XChecksPass
       /\ (CallN = 1
           \/ (args.x_given /\ \A i \in 1..Len(args.x) : args.x[i] = args.x[1])))
        => ret = Return(RZero)

C8_Witness ==
    /\ Returned /\ IsSimpson /\ args.even = "avg" /\ args.x_given
    /\ args.x = <<3, 3, 3, 3>> /\ args.y = <<2, -1, 2, 2>>
    /\ ret = Return(RZero)

\* C9: for an odd sample count N >= 3 and strictly increasing positions x, when
\* y samples a polynomial of degree <= 2 at x, simpson(y, x) is the exact integral
\* of the polynomial over [x[0], x[N-1]], each pair of intervals contributing
\* hsum/6 * (y0*(2 - h1/h0) + y1*hsum*hsum/(h0*h1) + y2*(2 - h0/h1)).
C9_QuadraticExactOnIrregular ==
    (Returned /\ IsSimpson /\ args.x_given /\ args.coef # <<>> /\ CallN % 2 = 1
       /\ CallN >= 3 /\ \A i \in 1..(CallN - 1) : args.x[i] < args.x[i + 1])
        => /\ ret = Return(RSub(ExactPolyIntegral(args.coef, args.x[CallN]),
                                ExactPolyIntegral(args.coef, args.x[1])))
           /\ ret.val = PairSum(1, CallN, TRUE)

C9_Witness ==
    /\ Returned /\ IsSimpson /\ args.x_given /\ CallN = 5
    /\ args.x = <<0, 1, 3, 4, 5>> /\ args.coef = <<1, -1, 1>>
    /\ ret.err = "" /\ ret.val # RZero

IsNewtonCotes == fn = "newton_cotes"
\* the order of the newton_cotes call of the state
CallOrder == IF args.sized THEN Len(args.rn) - 1 ELSE args.n
\* whether the consecutive differences of the given positions are all 1
CallUnitSpaced == \A i \in 1..(Len(args.rn) - 1) : RSub(args.rn[i + 1], args.rn[i]) = R(1)
\* whether the given positions do not start at 0 or do not end at N
CallOffRange == args.rn[1] # RZero \/ args.rn[Len(args.rn)] # R(CallOrder)

\* C2 as stated: with equal left at 0, sized positions that do not start at 0 or
\* do not end at N raise the range error and return no weights, whatever their
\* spacing.
C2_OffRangeAlwaysRaises ==
    (Returned /\ IsNewtonCotes /\ args.sized /\ args.equal = 0 /\ CallOffRange)
        => ret = Raise("ValueError", RangeMsg)

\* C2 as amended: with equal left at 0, sized positions that do not start at 0 or
\* do not end at N raise the range error and return no weights when their
\* consecutive differences are not all 1; when they are all 1 (and N is in 1..14)
\* the call raises nothing and returns the N + 1 weights of the table.
C2_OffRangeRaisesUnlessUnitSpaced ==
    (Returned /\ IsNewtonCotes /\ args.sized /\ args.equal = 0 /\ CallOffRange)
        => IF CallUnitSpaced /\ CallOrder \in TableOrders
           THEN ret.err = "" /\ Len(ret.val[1]) = CallOrder + 1
           ELSE ret = Raise("ValueError", RangeMsg)

C2_Witness ==
    /\ Returned /\ IsNewtonCotes /\ args.sized /\ args.equal = 0
    /\ args.rn = <<R(0), Rat(1, 2), Rat(3, 2)>>
    /\ ret = Raise("ValueError", RangeMsg)

\* C10: for an order N in 1..14, a bare integer N (any equal), sized positions
\* of length N+1 with equal=1, and sized positions of length N+1 with unit
\* spacing and equal=0 all return the weights num_a*int_a[i]/den_a and the error
\* coefficient num_B/den_B of the table entry for N; N = 1 gives [1/2, 1/2] and
\* -1/12, N = 2 [1/3, 4/3, 1/3] and -1/90, N = 3 3*[1,3,3,1]/8 and -3/80,
\* N = 4 4*[7,32,12,32,7]/90 and -8/945.
C10_TableForEqualSpacing ==
    (Returned /\ IsNewtonCotes /\ CallOrder \in TableOrders
       /\ (~args.sized \/ args.equal = 1 \/ CallUnitSpaced))
        => LET N == CallOrder
               e == _builtincoeffs(N)
               Times(k, v, d) == [i \in 1..Len(v) |-> Rat(k * v[i], d)]
           IN  /\ ret = Return(<<Times(e[1], e[3], e[2]), Rat(e[4], e[5])>>)
               /\ N = 1 => ret.val = <<<<Rat(1, 2), Rat(1, 2)>>, Rat(-1, 12)>>
               /\ N = 2 => ret.val = <<<<Rat(1, 3), Rat(4, 3), Rat(1, 3)>>, Rat(-1, 90)>>
               /\ N = 3 => ret.val = <<Times(3, <<1, 3, 3, 1>>, 8), Rat(-3, 80)>>
               /\ N = 4 => ret.val = <<Times(4, <<7, 32, 12, 32, 7>>, 90), Rat(-8, 945)>>

C10_Witness ==
    /\ Returned /\ IsNewtonCotes /\ args.sized /\ args.equal = 0
    /\ args.rn = <<R(0), R(1), R(2), R(3)>>
    /\ ret.err = "" /\ ret.val[2] = Rat(-3, 80)

\* whether the given positions are strictly increasing
CallIncreasing ==
    \A i \in 1..(Len(args.rn) - 1) : RSub(args.rn[i + 1], args.rn[i])[1] > 0

\* sum over i of w[i] * rn[i]^k
Moment(w, rn, k) == Dot(w, [i \in 1..Len(rn) |-> RPow(rn[i], k)])

\* C11: for strictly increasing, non-unit-spaced positions rn of length N+1 with
\* rn[0] = 0 and rn[N] = N (equal left at 0), newton_cotes raises nothing and
\* its weights ai integrate every polynomial of degree <= N exactly over [0, N]:
\* sum of ai[i] * rn[i]^k = N^(k+1)/(k+1) for every k in 0..N; rn = [0, 1.5, 2.0]
\* with y = x^2 gives 8/3 and rn = [0, 1.4, 2.1, 3.0] with y = x^2 gives 9.
C11_IrregularWeightsExact ==
    (Returned /\ IsNewtonCotes /\ args.sized /\ args.equal = 0
       /\ CallIncreasing /\ ~CallUnitSpaced /\ ~CallOffRange)
        => LET N == CallOrder
           IN  /\ ret.err = ""
               /\ Len(ret.val[1]) = N + 1
               /\ \A k \in 0..N :
                     Moment(ret.val[1], args.rn, k) = RDiv(RPow(R(N), k + 1), R(k + 1))
               /\ args.rn = <<R(0), Rat(3, 2), R(2)>>
                     => Moment(ret.val[1], args.rn, 2) = Rat(8, 3)
               /\ args.rn = <<R(0), Rat(14, 10), Rat(21, 10), R(3)>>
                     => Moment(ret.val[1], args.rn, 2) = R(9)

C11_Witness ==
    /\ Returned /\ IsNewtonCotes /\ args.sized /\ args.equal = 0
    /\ args.rn = <<R(0), Rat(14, 10), Rat(21, 10), R(3)>>
    /\ ret.err = "" /\ Moment(ret.val[1], args.rn, 2) = R(9)

\* whether the call of the state has positions x of one step, held by dx
UniformCall ==
    /\ IsSimpson /\ args.x_given /\ args.dx[1] > 0
    /\ \A i \in 1..(Len(args.x) - 1) : StepAt(i) = args.dx

\* simpson on the y of the state with x = None and dx = h
SimpsonRegular(h) ==
    simpson(args.yshape, ToRat(args.y), FALSE, <<>>, <<>>, h, args.axis, args.even)

\* C12: on uniformly spaced positions x = [x0, x0 + h, ..] with h > 0, the
\* irregular path gives what the regular path gives with dx = h, for every
\* sample count (odd or even, trapezoid terms included), every even and every
\* y; simpson(0..16, x=linspace(0, 4, 17)) = 32 = simpson(0..16, dx=0.25).
C12_UniformXAgreesWithDx ==
    (Returned /\ UniformCall)
        => /\ ret = SimpsonRegular(args.dx)
           /\ (CallN = 17 /\ args.xden = 4 /\ args.even = "avg") => ret = Return(R(32))

C12_Witness ==
    /\ Returned /\ UniformCall /\ CallN = 4 /\ args.even = "avg"
    /\ args.y = <<2, -1, -1, 2>> /\ args.x = <<1, 4, 7, 10>> /\ args.xden = 4
    /\ ret = SimpsonRegular(Rat(3, 4)) /\ ret.err = "" /\ ret.val # RZero

====
